---- MODULE Spec2Model ----
(***************************************************************************)
(* A model of the incremental Delaunay triangulator (triangulator.rs,      *)
(* triangle.rs, Vertex.rs).  Coordinates are small integers, so the two    *)
(* geometric predicates are computed exactly.                              *)
(***************************************************************************)
EXTENDS Integers, Sequences, FiniteSets, TLC

\* ------------------------------------------------------------------ bounds
\* Longest input sequence handed to from_vertices.
MaxInput == 5
\* Number of public operations (triangulate, insert_vertex, delete_vertex,
\* insert_hole) called after construction.
MaxOps == 3
\* Number of public operations called on one of the DeepInputs.
MaxDeepOps == 4
\* Number of public operations called on one of the DupInputs.
MaxDupOps == 3
\* Largest number of input vertices, and number of public operations, of the
\* logged call sequences.
MaxLogInput == 4
MaxLogOps == 3
\* Number of public operations of the call sequences that end with export.
MaxExportOps == 3
\* Largest length of a coordinate array, the values of its elements, and the
\* number of calls made with it.
MaxRaw == 6
RawValues == {0, 5, 10}
MaxCoordsOps == 2

\* ---------------------------------------------------------------- vertices
\* Vertex::new
Vertex(x, y) == [x |-> x, y |-> y, is_ghost |-> FALSE]

\* Vertex::new_ghost
new_ghost == [x |-> 0, y |-> 0, is_ghost |-> TRUE]

\* The coordinates the inputs are drawn from.
Coords == { <<0, 0>>, <<10, 0>>, <<5, 10>>, <<5, 2>>, <<4, 3>>, <<3, 3>>, <<5, 0>> }

Points == { Vertex(c[1], c[2]) : c \in Coords }

\* ------------------------------------------------------------- predicates
\* orient_2d: the sign of the signed area of (a, b, c).
Orient2dDet(a, b, c) ==
    (b.x - a.x) * (c.y - a.y) - (b.y - a.y) * (c.x - a.x)

orient_2d(a, b, c) ==
    LET d == Orient2dDet(a, b, c)
    IN  IF d > 0 THEN "Counterclockwise"
        ELSE IF d < 0 THEN "Clockwise"
        ELSE "Colinear"

\* in_circle: the sign of the in-circle determinant of (a, b, c) against d.
InCircleDet(a, b, c, d) ==
    LET ax == a.x - d.x
        ay == a.y - d.y
        bx == b.x - d.x
        by == b.y - d.y
        cx == c.x - d.x
        cy == c.y - d.y
        al == ax * ax + ay * ay
        bl == bx * bx + by * by
        cl == cx * cx + cy * cy
    IN  ax * (by * cl - bl * cy)
        - ay * (bx * cl - bl * cx)
        + al * (bx * cy - by * cx)

in_circle(a, b, c, d) ==
    LET det == InCircleDet(a, b, c, d)
    IN  IF det > 0 THEN "Inside"
        ELSE IF det < 0 THEN "Outside"
        ELSE "Boundary"

\* --------------------------------------------------------------- triangles
\* Triangle::new
Triangle(v1, v2, v3) == [v1 |-> v1, v2 |-> v2, v3 |-> v3]

\* Triangle::is_ghost
is_ghost(t) == t.v1.is_ghost \/ t.v2.is_ghost \/ t.v3.is_ghost

\* Triangle::encircles
encircles(t, vertex) ==
    IF ~is_ghost(t)
    THEN in_circle(t.v1, t.v2, t.v3, vertex)
    ELSE IF orient_2d(t.v1, t.v2, vertex) = "Counterclockwise"
         THEN "Inside"
         ELSE "Outside"

\* PartialEq for Triangle: equal up to rotation, not reflection.  The derived
\* Hash covers (v1, v2, v3) in order, so the hash containers below find a
\* triangle only under the very triple it was stored with.
TriangleEq(a, b) ==
    \/ a.v1 = b.v1 /\ a.v2 = b.v2 /\ a.v3 = b.v3
    \/ a.v1 = b.v2 /\ a.v2 = b.v3 /\ a.v3 = b.v1
    \/ a.v1 = b.v3 /\ a.v2 = b.v1 /\ a.v3 = b.v2

\* ------------------------------------------------------------------- maps
EmptyMap == [k \in {} |-> k]

MapInsert(m, k, v) == [x \in DOMAIN m \cup {k} |-> IF x = k THEN v ELSE m[x]]

MapRemove(m, k) == [x \in DOMAIN m \ {k} |-> m[x]]

RemoveAt(s, i) == SubSeq(s, 1, i - 1) \o SubSeq(s, i + 1, Len(s))

MinOf(S) == CHOOSE i \in S : \A j \in S : i <= j

\* ------------------------------------------------------------ triangulator
\* A Triangulator value: the four fields of the struct, and whether an
\* operation on it panicked ("" when none did).
Triangulator(vs) ==
    [vertices |-> vs, triangles |-> {}, conflict_map |-> EmptyMap,
     adjacency |-> EmptyMap, panic |-> ""]

Panic(t, why) == [t EXCEPT !.panic = why]

\* The outcome of an operation that never returns.
Loop == "loop"

include_inner_adjacency(t, tri) ==
    [t EXCEPT !.adjacency =
        MapInsert(MapInsert(MapInsert(@, <<tri.v1, tri.v2>>, tri),
                            <<tri.v2, tri.v3>>, tri),
                  <<tri.v3, tri.v1>>, tri)]

\* A remove_inner_adjacency that forgets the edge v3 -> v1.
remove_two_edges(t, tri) ==
    [t EXCEPT !.adjacency =
        [e \in DOMAIN @ \ {<<tri.v1, tri.v2>>, <<tri.v2, tri.v3>>} |-> @[e]]]

remove_inner_adjacency(t, tri) ==
    [t EXCEPT !.adjacency =
        [e \in DOMAIN @ \ {<<tri.v1, tri.v2>>, <<tri.v2, tri.v3>>,
                           <<tri.v3, tri.v1>>} |-> @[e]]]

include_triangle(t, tri) ==
    LET t1 == include_inner_adjacency(t, tri)
        hits == {i \in 1..Len(t1.vertices) :
                    encircles(tri, t1.vertices[i]) = "Inside"}
    IN  IF hits # {}
        THEN LET index == MinOf(hits)
             IN  [t1 EXCEPT !.vertices = RemoveAt(@, index),
                            !.conflict_map =
                                MapInsert(@, tri, t1.vertices[index])]
        ELSE [t1 EXCEPT !.triangles = @ \cup {tri}]

\* A remove_triangle that forgets the vertex of a conflict_map entry it removes.
remove_triangle_dropping(t, tri) ==
    LET t1 == remove_inner_adjacency(t, tri)
    IN  IF tri \in t1.triangles
        THEN [t1 EXCEPT !.triangles = @ \ {tri}]
        ELSE IF tri \in DOMAIN t1.conflict_map
        THEN [t1 EXCEPT !.conflict_map = MapRemove(@, tri)]
        ELSE Panic(t1, "Could not remove specied triangle")

remove_triangle(t, tri) ==
    LET t1 == remove_inner_adjacency(t, tri)
    IN  IF tri \in t1.triangles
        THEN [t1 EXCEPT !.triangles = @ \ {tri}]
        ELSE IF tri \in DOMAIN t1.conflict_map
        THEN [t1 EXCEPT !.vertices = Append(@, t1.conflict_map[tri]),
                        !.conflict_map = MapRemove(@, tri)]
        ELSE Panic(t1, "Could not remove specied triangle")

\* The triangle handle_conflict emits for the cavity edge v_begin -> v_end.
NewTriangle(v_begin, v_end, vertex_to_insert) ==
    IF v_begin.is_ghost
    THEN Triangle(v_end, vertex_to_insert, v_begin)
    ELSE IF v_end.is_ghost
    THEN Triangle(vertex_to_insert, v_begin, v_end)
    ELSE Triangle(v_begin, v_end, vertex_to_insert)

\* The two edges pushed when the triangle beyond v_end -> v_begin is dug out.
NewCavities(outer, v_begin) ==
    IF outer.v1 = v_begin
    THEN << <<outer.v1, outer.v2>>, <<outer.v2, outer.v3>> >>
    ELSE IF outer.v2 = v_begin
    THEN << <<outer.v2, outer.v3>>, <<outer.v3, outer.v1>> >>
    ELSE << <<outer.v3, outer.v1>>, <<outer.v1, outer.v2>> >>

\* A cavity loop that never digs past the edges of the conflicting triangle.
RECURSIVE FillCavity(_, _, _)
FillCavity(t, vertex_to_insert, pending_cavities) ==
    IF t.panic # "" \/ pending_cavities = <<>>
    THEN t
    ELSE LET n == Len(pending_cavities)
             v_begin == pending_cavities[n][1]
             v_end == pending_cavities[n][2]
         IN  FillCavity(include_triangle(t,
                            NewTriangle(v_begin, v_end, vertex_to_insert)),
                        vertex_to_insert, SubSeq(pending_cavities, 1, n - 1))

\* The cavity loop of handle_conflict: pending_cavities is a stack, popped
\* from its end.
RECURSIVE DigCavity(_, _, _)
DigCavity(t, vertex_to_insert, pending_cavities) ==
    IF t.panic # "" \/ pending_cavities = <<>>
    THEN t
    ELSE LET n == Len(pending_cavities)
             v_begin == pending_cavities[n][1]
             v_end == pending_cavities[n][2]
             rest == SubSeq(pending_cavities, 1, n - 1)
         IN  IF <<v_end, v_begin>> \notin DOMAIN t.adjacency
             THEN Panic(t, "adjacency.get(..).unwrap()")
             ELSE LET outer_triangle == t.adjacency[<<v_end, v_begin>>]
                  IN  IF encircles(outer_triangle, vertex_to_insert) = "Inside"
                      THEN DigCavity(remove_triangle(t, outer_triangle),
                                     vertex_to_insert,
                                     rest \o NewCavities(outer_triangle, v_begin))
                      ELSE DigCavity(include_triangle(t,
                                        NewTriangle(v_begin, v_end, vertex_to_insert)),
                                     vertex_to_insert, rest)

\* handle_conflict, for the key conflict_map.keys().next() yields.
handle_conflict(t, triangle) ==
    IF t.conflict_map = EmptyMap
    THEN Panic(t, "No conflit to handle")
    ELSE LET vertex_to_insert == t.conflict_map[triangle]
             t1 == remove_inner_adjacency(
                      [t EXCEPT !.conflict_map = MapRemove(@, triangle)],
                      triangle)
         IN  DigCavity(t1, vertex_to_insert,
                       << <<triangle.v1, triangle.v2>>,
                          <<triangle.v2, triangle.v3>>,
                          <<triangle.v3, triangle.v1>> >>)

\* The seed search of init.  v1 and v2 never change, so after trying every
\* candidate for v3 once the loop is back in the state it started from and
\* runs forever: that outcome is the value "loop".
RECURSIVE SeedSearch(_, _, _, _, _)
SeedSearch(vs, v1, v2, v3, tries) ==
    CASE orient_2d(v1, v2, v3) = "Counterclockwise" ->
            [vertices |-> vs, v1 |-> v1, v2 |-> v2, v3 |-> v3, loop |-> FALSE]
      [] orient_2d(v1, v2, v3) = "Clockwise" ->
            [vertices |-> vs, v1 |-> v1, v2 |-> v3, v3 |-> v2, loop |-> FALSE]
      [] OTHER ->
            IF tries = 0
            THEN [vertices |-> vs, v1 |-> v1, v2 |-> v2, v3 |-> v3, loop |-> TRUE]
            ELSE LET ws == <<v3>> \o vs
                 IN  SeedSearch(SubSeq(ws, 1, Len(ws) - 1), v1, v2,
                                ws[Len(ws)], tries - 1)

init(t) ==
    LET n == Len(t.vertices)
    IN  IF n < 3
        THEN Panic([t EXCEPT !.vertices = <<>>], "vertices.pop().unwrap()")
        ELSE LET s == SeedSearch(SubSeq(t.vertices, 1, n - 3), t.vertices[n - 2],
                                 t.vertices[n - 1], t.vertices[n], n - 3)
                 t0 == [t EXCEPT !.vertices = s.vertices]
                 solid_triangle == Triangle(s.v1, s.v2, s.v3)
                 tghost_1 == Triangle(s.v2, s.v1, new_ghost)
                 tghost_2 == Triangle(s.v3, s.v2, new_ghost)
                 tghost_3 == Triangle(s.v1, s.v3, new_ghost)
             IN  IF s.loop
                 THEN Panic(t0, Loop)
                 ELSE include_triangle(
                        include_triangle(
                          include_triangle(
                            include_triangle(t0, solid_triangle),
                            tghost_1),
                          tghost_2),
                        tghost_3)

\* from_vertices, and the triangulate loop's two halves: the call up to its
\* first test of the queue, and one iteration.
from_vertices(vs) == Triangulator(vs)

\* A should_init that looks at conflict_map alone.
no_conflicts(t) == Cardinality(DOMAIN t.conflict_map) = 0

should_init(t) == Cardinality(t.triangles) + Cardinality(DOMAIN t.conflict_map) = 0

triangulate_begin(t) == IF should_init(t) THEN init(t) ELSE t

\* The states triangulate()'s while loop can end in, over every key
\* conflict_map.keys().next() can yield in each iteration.
RECURSIVE Drain(_)
Drain(t) ==
    IF t.panic # "" \/ t.conflict_map = EmptyMap
    THEN {t}
    ELSE UNION {Drain(handle_conflict(t, key)) : key \in DOMAIN t.conflict_map}

\* insert_vertex, for the triangle find() yields among those that encircle
\* the vertex.
Conflicting(t, vertex) ==
    {tri \in t.triangles : encircles(tri, vertex) = "Inside"}

insert_vertex(t, vertex, conflicting_triangle, key) ==
    LET t1 == [t EXCEPT !.triangles = @ \ {conflicting_triangle},
                        !.conflict_map = MapInsert(@, conflicting_triangle, vertex)]
    IN  handle_conflict(t1, key)

\* An insert_vertex that queues the vertex before it gives up.
InsertOrQueue(t, vertex) ==
    IF Conflicting(t, vertex) = {}
    THEN {Panic([t EXCEPT !.vertices = Append(@, vertex)],
                "Expected to find conflicting triangle to insert vertex")}
    ELSE UNION {
           LET keys == DOMAIN t.conflict_map \cup {c}
           IN  {insert_vertex(t, vertex, c, k) : k \in keys}
           : c \in Conflicting(t, vertex)}

InsertVertexOutcomes(t, vertex) ==
    IF Conflicting(t, vertex) = {}
    THEN {Panic(t, "Expected to find conflicting triangle to insert vertex")}
    ELSE UNION {
           LET keys == DOMAIN t.conflict_map \cup {c}
           IN  {insert_vertex(t, vertex, c, k) : k \in keys}
           : c \in Conflicting(t, vertex)}

\* delete_vertex: the star of the vertex, its removal, and the vertices the
\* inner triangulation is built from.
Corners(tri) == {tri.v1, tri.v2, tri.v3}

Star(t, vertex) == {tri \in t.triangles : vertex \in Corners(tri)}

RECURSIVE RemoveAll(_, _)
RemoveAll(t, tris) ==
    IF tris = {}
    THEN t
    ELSE LET tri == CHOOSE x \in tris : TRUE
         IN  RemoveAll(remove_triangle(t, tri), tris \ {tri})

StarVertices(tris, vertex) == UNION {Corners(tri) : tri \in tris} \ {vertex}

\* Every order a HashSet of these vertices can be iterated in.
Orders(S) ==
    {s \in [1..Cardinality(S) -> S] :
        \A i, j \in 1..Cardinality(S) : i # j => s[i] # s[j]}

merge_triangles(t, other) ==
    [t EXCEPT !.triangles = @ \cup {tri \in other.triangles : ~is_ghost(tri)},
              !.adjacency = [e \in DOMAIN @ \cup DOMAIN other.adjacency |->
                                IF e \in DOMAIN other.adjacency
                                THEN other.adjacency[e]
                                ELSE @[e]]]

\* insert_hole: the edges of the closed path, and the carving of one of them.
InnerEdges(vertex_list) ==
    {<<vertex_list[i],
       IF i + 1 <= Len(vertex_list) THEN vertex_list[i + 1] ELSE vertex_list[1]>>
     : i \in 1..Len(vertex_list)}

\* A carving that removes nothing.
CarveGhostOnly(t, edge) ==
    include_triangle(t, Triangle(edge[1], edge[2], new_ghost))

\* A carving that looks up the owner of the opposite edge.
CarveOpposite(t, edge) ==
    LET t1 == IF <<edge[2], edge[1]>> \in DOMAIN t.adjacency
              THEN remove_triangle(t, t.adjacency[<<edge[2], edge[1]>>])
              ELSE t
    IN  IF t1.panic # ""
        THEN t1
        ELSE include_triangle(t1, Triangle(edge[1], edge[2], new_ghost))

CarveEdge(t, edge) ==
    LET t1 == IF edge \in DOMAIN t.adjacency
              THEN remove_triangle(t, t.adjacency[edge])
              ELSE t
    IN  IF t1.panic # ""
        THEN t1
        ELSE include_triangle(t1, Triangle(edge[1], edge[2], new_ghost))

\* ------------------------------------------------------------------ state
VARIABLES
    vertices,       \* Triangulator.vertices
    triangles,      \* Triangulator.triangles
    conflict_map,   \* Triangulator.conflict_map
    adjacency,      \* Triangulator.adjacency
    pc,             \* where the caller is: "idle" between public operations
    failure,        \* the panic message of the operation that failed, or ""
    inner,          \* delete_vertex's inner_triangulation
    hole,           \* insert_hole's vertex_list, position and inner_edges
    input,          \* the set of vertices given to from_vertices
    last,           \* the public operation called last, and its argument
    hist,           \* the names of the public operations called so far
    max_calls,      \* how many public operations the caller makes at most
    seen,           \* for each public call so far, its argument and the mesh
                    \* it was made on, when the caller keeps a log
    logging,        \* whether the caller keeps that log
    raw,            \* the coordinate array given to from_coordinates
    out             \* the value the last call returned, when it returns one

vars == <<vertices, triangles, conflict_map, adjacency, pc, failure, inner,
          hole, input, last, hist, max_calls, seen, logging, raw, out>>

Self ==
    [vertices |-> vertices, triangles |-> triangles,
     conflict_map |-> conflict_map, adjacency |-> adjacency, panic |-> ""]

NoInner == Triangulator(<<>>)

NoHole == [path |-> <<>>, index |-> 0, edges |-> {}]

Range(s) == {s[i] : i \in 1..Len(s)}

Inputs ==
    UNION {{s \in [1..n -> Points] : \A i, j \in 1..n : i # j => s[i] # s[j]}
           : n \in 3..MaxInput}

\* The inputs of the logged call sequences.
LogInputs ==
    UNION {{s \in [1..n -> Points] : \A i, j \in 1..n : i # j => s[i] # s[j]}
           : n \in 3..MaxLogInput}

\* The inputs of the longer call sequences: every order of the outer triangle
\* of test_triangle_hole_inside_triangle, and every order of the points other
\* than its corners (10, 0) and (5, 10), which are left to be inserted.
OuterPoints == {Vertex(0, 0), Vertex(10, 0), Vertex(5, 10)}

DeepPoints == Points \ {Vertex(10, 0), Vertex(5, 10)}

DeepInputs == Orders(DeepPoints) \cup Orders(OuterPoints)

\* Inputs that hold one vertex twice: the outer triangle, and the outer
\* triangle with (5, 2) inside it, in every order.
DupPoints == OuterPoints \cup {Vertex(5, 2)}

DupInputs ==
    {s \in [1..4 -> OuterPoints] : Range(s) = OuterPoints}
        \cup {s \in [1..5 -> DupPoints] : Range(s) = DupPoints}

\* The paths insert_hole is called with: the three hole vertices of
\* test_triangle_hole_inside_triangle, in every order.
HolePoints == {Vertex(5, 2), Vertex(4, 3), Vertex(3, 3)}

HolePaths == Orders(HolePoints)

\* The fields of self become those of t; a panic or an endless loop ends the
\* behaviour of the program, otherwise the caller goes on at `next`.
Becomes(t, next) ==
    /\ vertices' = t.vertices
    /\ triangles' = t.triangles
    /\ conflict_map' = t.conflict_map
    /\ adjacency' = t.adjacency
    /\ failure' = IF t.panic = Loop THEN "" ELSE t.panic
    /\ pc' = IF t.panic = Loop THEN "hung"
             ELSE IF t.panic # "" THEN "panicked"
             ELSE next

Calls(op, arg) ==
    /\ pc = "idle"
    /\ Len(hist) < max_calls
    /\ hist' = Append(hist, op)
    /\ last' = [op |-> op, arg |-> arg]
    /\ seen' = IF logging
               THEN Append(seen, [arg |-> arg, triangles |-> triangles,
                                  drained |-> vertices = <<>> /\ conflict_map = EmptyMap])
               ELSE seen

\* A caller that builds a Triangulator from one of the inputs and then makes
\* up to calls public calls, keeping a log of them or not.
Starts(inputs, calls, log) ==
    /\ vertices \in inputs
    /\ triangles = {}
    /\ conflict_map = EmptyMap
    /\ adjacency = EmptyMap
    /\ pc = "idle"
    /\ failure = ""
    /\ inner = NoInner
    /\ hole = NoHole
    /\ input = Range(vertices)
    /\ last = [op |-> "from_vertices", arg |-> <<>>]
    /\ hist = <<>>
    /\ max_calls = calls
    /\ seen = <<>>
    /\ logging = log
    /\ raw = <<>>
    /\ out = <<>>

Init == Starts(Inputs, MaxOps, FALSE)

\* The longer call sequences are explored from fewer inputs.
InitDeep == Starts(DeepInputs, MaxDeepOps, TRUE)

\* The calls are logged for the inputs of up to MaxLogInput vertices.
InitLog == Starts(LogInputs, MaxLogOps, TRUE)

\* from_vertices takes any vector, one with a repeated vertex too.
InitDup == Starts(DupInputs, MaxDupOps, TRUE)

\* triangulate(): init when the mesh is empty, then the first test of the
\* while loop.
Triangulate ==
    /\ Calls("triangulate", should_init(Self))
    /\ LET t == triangulate_begin(Self)
       IN  Becomes(t, IF t.conflict_map = EmptyMap THEN "idle" ELSE "triangulate")
    /\ UNCHANGED <<inner, hole, input, max_calls, logging, raw, out>>

\* One iteration of triangulate()'s while loop, and the test that follows it.
TriangulateStep ==
    /\ pc = "triangulate"
    /\ \E key \in DOMAIN conflict_map :
         LET t == handle_conflict(Self, key)
         IN  Becomes(t, IF t.conflict_map = EmptyMap THEN "idle" ELSE "triangulate")
    /\ UNCHANGED <<inner, hole, input, max_calls, last, hist, seen, logging, raw, out>>

InsertVertex ==
    /\ \E vertex \in Points :
         /\ Calls("insert_vertex", vertex)
         /\ \E t \in InsertVertexOutcomes(Self, vertex) : Becomes(t, "idle")
    /\ UNCHANGED <<inner, hole, input, max_calls, logging, raw, out>>

\* delete_vertex up to the first test of the inner triangulation's queue:
\* the pending-vertex branch, the boundary check, the removal of the star and
\* the init of the inner triangulation (and the merge, when its queue is
\* empty at once).
DeleteVertex ==
    /\ \E vertex \in Points :
         /\ Calls("delete_vertex", vertex)
         /\ IF vertex \in Range(vertices)
            THEN /\ Becomes([Self EXCEPT !.vertices =
                               RemoveAt(@, MinOf({i \in 1..Len(vertices) :
                                                    vertices[i] = vertex}))],
                            "idle")
                 /\ inner' = NoInner
            ELSE LET conflicting_triangles == Star(Self, vertex)
                 IN  IF \E tri \in conflicting_triangles : is_ghost(tri)
                     THEN /\ Becomes(Panic(Self, "Cannot delete vertex at boundary"),
                                     "idle")
                          /\ inner' = NoInner
                     ELSE \E vertices_vec \in
                               Orders(StarVertices(conflicting_triangles, vertex)) :
                            LET t1 == RemoveAll(Self, conflicting_triangles)
                                inner_triangulation ==
                                    triangulate_begin(from_vertices(vertices_vec))
                            IN  IF inner_triangulation.panic # ""
                                THEN /\ Becomes(Panic(t1, inner_triangulation.panic),
                                                "idle")
                                     /\ inner' = inner_triangulation
                                ELSE IF inner_triangulation.conflict_map = EmptyMap
                                THEN /\ Becomes(merge_triangles(t1, inner_triangulation),
                                                "idle")
                                     /\ inner' = NoInner
                                ELSE /\ Becomes(t1, "delete_vertex")
                                     /\ inner' = inner_triangulation
    /\ UNCHANGED <<hole, input, max_calls, logging, raw, out>>

\* One iteration of the inner triangulation's while loop, the test that
\* follows it and, when the queue is empty, the merge.
DeleteVertexStep ==
    /\ pc = "delete_vertex"
    /\ \E key \in DOMAIN inner.conflict_map :
         LET inner_triangulation == handle_conflict(inner, key)
         IN  IF inner_triangulation.panic # ""
             THEN /\ Becomes(Panic(Self, inner_triangulation.panic), "idle")
                  /\ inner' = inner_triangulation
             ELSE IF inner_triangulation.conflict_map = EmptyMap
             THEN /\ Becomes(merge_triangles(Self, inner_triangulation), "idle")
                  /\ inner' = NoInner
             ELSE /\ Becomes(Self, "delete_vertex")
                  /\ inner' = inner_triangulation
    /\ UNCHANGED <<hole, input, max_calls, last, hist, seen, logging, raw, out>>

\* insert_hole up to the insert_vertex of the first vertex of the path.
InsertHole ==
    /\ \E vertex_list \in HolePaths :
         /\ Calls("insert_hole", vertex_list)
         /\ hole' = [path |-> vertex_list, index |-> 2,
                     edges |-> InnerEdges(vertex_list)]
         /\ \E t \in InsertVertexOutcomes(Self, vertex_list[1]) :
              Becomes(t, "insert_hole")
    /\ UNCHANGED <<inner, input, max_calls, logging, raw, out>>

\* The insert_vertex of the next vertex of the path.
InsertHoleVertex ==
    /\ pc = "insert_hole"
    /\ hole.index <= Len(hole.path)
    /\ hole' = [hole EXCEPT !.index = @ + 1]
    /\ \E t \in InsertVertexOutcomes(Self, hole.path[hole.index]) :
         Becomes(t, "insert_hole")
    /\ UNCHANGED <<inner, input, max_calls, last, hist, seen, logging, raw, out>>

\* One iteration of the loop over inner_edges, a HashSet: the owner of the
\* edge is removed and the ghost triangle on the edge included.
InsertHoleEdge ==
    /\ pc = "insert_hole"
    /\ hole.index > Len(hole.path)
    /\ \E edge \in hole.edges :
         /\ hole' = IF hole.edges = {edge} THEN NoHole
                    ELSE [hole EXCEPT !.edges = @ \ {edge}]
         /\ Becomes(CarveEdge(Self, edge),
                    IF hole.edges = {edge} THEN "idle" ELSE "insert_hole")
    /\ UNCHANGED <<inner, input, max_calls, last, hist, seen, logging, raw, out>>

Next ==
    \/ Triangulate
    \/ TriangulateStep
    \/ InsertVertex
    \/ DeleteVertex
    \/ DeleteVertexStep
    \/ InsertHole
    \/ InsertHoleVertex
    \/ InsertHoleEdge

Spec == Init /\ [][Next]_vars

SpecDeep == InitDeep /\ [][Next]_vars

SpecDup == InitDup /\ [][Next]_vars

SpecLog == InitLog /\ [][Next]_vars

\* ------------------------------------------------------------------ export
\* Ord for Vertex, which vertices_vec.sort() uses: lexicographic on (x, y).
VertexLess(a, b) == a.x < b.x \/ (a.x = b.x /\ a.y < b.y)

\* Every order of the elements of S.
RECURSIVE Perms(_)
Perms(S) ==
    IF S = {}
    THEN {<<>>}
    ELSE UNION {{<<x>> \o p : p \in Perms(S \ {x})} : x \in S}

\* The vertices of vertices_set, greatest first.
RECURSIVE vertices_vec_descending(_)
vertices_vec_descending(vertices_set) ==
    IF vertices_set = {}
    THEN <<>>
    ELSE LET greatest == CHOOSE v \in vertices_set :
                             \A w \in vertices_set \ {v} : VertexLess(w, v)
         IN  <<greatest>> \o vertices_vec_descending(vertices_set \ {greatest})

\* vertices_vec after sort(): the vertices of vertices_set, least first.
RECURSIVE vertices_vec(_)
vertices_vec(vertices_set) ==
    IF vertices_set = {}
    THEN <<>>
    ELSE LET least == CHOOSE v \in vertices_set :
                          \A w \in vertices_set \ {v} : VertexLess(v, w)
         IN  <<least>> \o vertices_vec(vertices_set \ {least})

\* vertices_index_mapping: the index, from 0, of vertex in vec.
vertices_index_mapping(vec, vertex) ==
    (CHOOSE index \in 1..Len(vec) : vec[index] = vertex) - 1

\* The coordinates vector: x and y of each vertex of vec in turn.
Coordinates(vec) ==
    [k \in 1..(2 * Len(vec)) |->
        IF k % 2 = 1 THEN vec[(k + 1) \div 2].x ELSE vec[k \div 2].y]

\* An index triple that starts at v1 whatever the indices are.
unrotated_indices(vec, triangle) ==
    << vertices_index_mapping(vec, triangle.v1),
       vertices_index_mapping(vec, triangle.v2),
       vertices_index_mapping(vec, triangle.v3) >>

\* The three indices export pushes for a solid triangle.
triangle_indices(vec, triangle) ==
    LET v1_index == vertices_index_mapping(vec, triangle.v1)
        v2_index == vertices_index_mapping(vec, triangle.v2)
        v3_index == vertices_index_mapping(vec, triangle.v3)
        min_index == MinOf({v1_index, v2_index, v3_index})
    IN  IF min_index = v1_index
        THEN <<v1_index, v2_index, v3_index>>
        ELSE IF min_index = v2_index
        THEN <<v2_index, v3_index, v1_index>>
        ELSE <<v3_index, v1_index, v2_index>>

\* triangle_index_array, for the order in which solid_triangles is iterated.
RECURSIVE triangle_index_array(_, _)
triangle_index_array(vec, order) ==
    IF order = <<>>
    THEN <<>>
    ELSE triangle_indices(vec, Head(order))
            \o triangle_index_array(vec, Tail(order))

\* vertices_set: the vertices of the solid triangles.
solid_vertices(t) ==
    UNION {Corners(triangle) : triangle \in {x \in t.triangles : ~is_ghost(x)}}

\* export, for one iteration order of the HashSet solid_triangles.
export(t, order) ==
    LET vec == vertices_vec(solid_vertices(t))
    IN  [coordinates |-> Coordinates(vec),
         triangles |-> triangle_index_array(vec, order)]

\* export() is called last: it returns the Triangulation and leaves the
\* Triangulator as it is.
Export ==
    /\ Calls("export", <<>>)
    /\ \E order \in Perms({x \in triangles : ~is_ghost(x)}) :
          out' = export(Self, order)
    /\ pc' = "exported"
    /\ UNCHANGED <<vertices, triangles, conflict_map, adjacency, failure,
                   inner, hole, input, max_calls, logging, raw>>

\* export is called on the meshes made of the DeepInputs.
InitExport == Starts(DeepInputs, MaxExportOps, FALSE)

NextExport == Next \/ Export

SpecExport == InitExport /\ [][NextExport]_vars

\* ----------------------------------------------------------------- vertex
\* The result of Vertex::from_coordinates: the list, or the panic message.
\* The code counts the elements of raw_array from 0.
Vertex_from_coordinates_lenient(raw_array) ==
    [panic |-> "",
     vertex_list |-> [index \in 1..(Len(raw_array) \div 2) |->
                        Vertex(raw_array[2 * index - 1], raw_array[2 * index])]]

Vertex_from_coordinates(raw_array) ==
    IF Len(raw_array) % 2 # 0
    THEN [panic |-> "Array must provide vertices by pair of x,y coordinates.",
          vertex_list |-> <<>>]
    ELSE [panic |-> "",
          vertex_list |-> [index \in 1..(Len(raw_array) \div 2) |->
                             Vertex(raw_array[2 * index - 1], raw_array[2 * index])]]

\* Triangulator::from_coordinates
from_coordinates(vertices_coordinates) ==
    LET made == Vertex_from_coordinates(vertices_coordinates)
    IN  IF made.panic # ""
        THEN Panic(Triangulator(<<>>), made.panic)
        ELSE Triangulator(made.vertex_list)

\* f64::partial_cmp, of two numbers.
partial_cmp(a, b) ==
    IF a < b THEN "Less" ELSE IF a = b THEN "Equal" ELSE "Greater"

\* The comparator Vertex::sort gives to sort_by.
compare(v1, v2) ==
    IF partial_cmp(v1.x, v2.x) = "Equal"
    THEN partial_cmp(v1.y, v2.y)
    ELSE partial_cmp(v1.x, v2.y)

Reverse(ordering) ==
    IF ordering = "Less" THEN "Greater"
    ELSE IF ordering = "Greater" THEN "Less" ELSE "Equal"

\* compare is a total order on the elements of vertex_list.
TotalOrder(vertex_list) ==
    \A a, b, c \in Range(vertex_list) :
        /\ compare(a, b) = Reverse(compare(b, a))
        /\ (compare(a, b) # "Greater" /\ compare(b, c) # "Greater")
              => compare(a, c) # "Greater"
        /\ (compare(a, b) = "Equal" /\ compare(b, c) = "Equal")
              => compare(a, c) = "Equal"

\* Vertex::sort: sort_by is a stable sort when compare is a total order on
\* the elements, and leaves them in an unspecified order when it is not.
sort(vertex_list) ==
    LET orders == Perms(1..Len(vertex_list))
        Stable(p) ==
            \A i, j \in 1..Len(p) : i < j =>
                \/ compare(vertex_list[p[i]], vertex_list[p[j]]) = "Less"
                \/ /\ compare(vertex_list[p[i]], vertex_list[p[j]]) = "Equal"
                   /\ p[i] < p[j]
    IN  {[i \in 1..Len(vertex_list) |-> vertex_list[p[i]]] :
            p \in IF TotalOrder(vertex_list)
                  THEN {q \in orders : Stable(q)}
                  ELSE orders}

\* The coordinate arrays from_coordinates is given.
RawArrays == UNION {[1..n -> RawValues] : n \in 0..MaxRaw}

\* A caller with a coordinate array and nothing built from it yet.
InitCoords ==
    /\ raw \in RawArrays
    /\ out = <<>>
    /\ vertices = <<>>
    /\ triangles = {}
    /\ conflict_map = EmptyMap
    /\ adjacency = EmptyMap
    /\ pc = "new"
    /\ failure = ""
    /\ inner = NoInner
    /\ hole = NoHole
    /\ input = {}
    /\ last = [op |-> "none", arg |-> <<>>]
    /\ hist = <<>>
    /\ max_calls = MaxCoordsOps
    /\ seen = <<>>
    /\ logging = FALSE

\* Vertex::from_coordinates(raw)
VertexFromCoordinates ==
    /\ pc = "new"
    /\ LET made == Vertex_from_coordinates(raw)
       IN  /\ pc' = IF made.panic # "" THEN "panicked" ELSE "listed"
           /\ failure' = made.panic
           /\ out' = made.vertex_list
    /\ last' = [op |-> "Vertex::from_coordinates", arg |-> raw]
    /\ hist' = Append(hist, "Vertex::from_coordinates")
    /\ UNCHANGED <<vertices, triangles, conflict_map, adjacency, inner, hole,
                   input, max_calls, seen, logging, raw>>

\* Vertex::sort(&mut vertex_list), on the list Vertex::from_coordinates
\* returned.
VertexSort ==
    /\ pc = "listed"
    /\ Len(hist) < max_calls
    /\ out' \in sort(out)
    /\ pc' = "sorted"
    /\ last' = [op |-> "Vertex::sort", arg |-> out]
    /\ hist' = Append(hist, "Vertex::sort")
    /\ UNCHANGED <<vertices, triangles, conflict_map, adjacency, failure,
                   inner, hole, input, max_calls, seen, logging, raw>>

\* Triangulator::from_coordinates(raw)
FromCoordinates ==
    /\ pc = "new"
    /\ Becomes(from_coordinates(raw), "idle")
    /\ last' = [op |-> "Triangulator::from_coordinates", arg |-> raw]
    /\ hist' = Append(hist, "Triangulator::from_coordinates")
    /\ UNCHANGED <<inner, hole, input, max_calls, seen, logging, raw, out>>

NextCoords == VertexFromCoordinates \/ VertexSort \/ FromCoordinates

SpecCoords == InitCoords /\ [][NextCoords]_vars

\* ----------------------------------------------------------------- claims
\* The vocabulary of the claims.
Solid(T) == {t \in T : ~is_ghost(t)}

Ghosts(T) == {t \in T : is_ghost(t)}

PlacedIn(T) == {v \in UNION {Corners(t) : t \in T} : ~v.is_ghost}

Placed == PlacedIn(triangles)

Edges(t) == {<<t.v1, t.v2>>, <<t.v2, t.v3>>, <<t.v3, t.v1>>}

Rotations(t) ==
    {t, Triangle(t.v2, t.v3, t.v1), Triangle(t.v3, t.v1, t.v2)}

\* The solid triangles of T, each up to rotation.
SolidSet(T) == {Rotations(t) : t \in Solid(T)}

Colinear3(S) ==
    \E a, b, c \in S :
        a # b /\ b # c /\ a # c /\ orient_2d(a, b, c) = "Colinear"

Cocircular4(S) ==
    \E a, b, c, d \in S :
        /\ Cardinality({a, b, c, d}) = 4
        /\ orient_2d(a, b, c) # "Colinear"
        /\ in_circle(a, b, c, d) = "Boundary"

GeneralPosition(S) == ~Colinear3(S) /\ ~Cocircular4(S)

\* The vertices of S on its convex hull, S in general position.
Hull(S) ==
    {p \in S : \E q \in S \ {p} :
        \A r \in S \ {p, q} : orient_2d(p, q, r) = "Counterclockwise"}

\* A public operation has returned.
Idle == pc = "idle" /\ hist # <<>>

\* Only triangulate and insert_vertex have been called.
OnlyTriangulateInsert ==
    \A i \in 1..Len(hist) : hist[i] \in {"triangulate", "insert_vertex"}

\* The first triangulate() of a new Triangulator has returned.
Triangulated == pc = "idle" /\ hist = <<"triangulate">>

EmptyCircumcircle(T) ==
    \A t \in Solid(T) : \A p \in PlacedIn(T) \ Corners(t) :
        encircles(t, p) # "Inside"

\* C1: when the first triangulate() returns, conflict_map and vertices are
\* empty and every input vertex is a vertex of some triangle in triangles.
C1_TriangulatePlacesAll ==
    Triangulated =>
        /\ conflict_map = EmptyMap
        /\ vertices = <<>>
        /\ input \subseteq Placed

\* C2: after triangulate() and after every subsequent insert_vertex, no
\* solid triangle in triangles has a placed vertex, other than its own three,
\* Inside its circumcircle.
C2_EmptyCircumcircle ==
    (Idle /\ OnlyTriangulateInsert) => EmptyCircumcircle(triangles)

C2_Witness ==
    /\ Idle
    /\ hist = <<"triangulate", "insert_vertex">>
    /\ Cardinality(Placed) >= 5
    /\ \E t \in Solid(triangles) : \E p \in Placed \ Corners(t) :
          encircles(t, p) = "Outside"

\* C3: after triangulate() and after each insert_vertex, with n placed
\* vertices in general position of which h are on the convex hull, triangles
\* holds exactly 2n-2-h solid triangles and exactly h ghost triangles.
C3_TriangleCounts ==
    (Idle /\ OnlyTriangulateInsert /\ GeneralPosition(Placed)) =>
        /\ Cardinality(Solid(triangles)) =
              2 * Cardinality(Placed) - 2 - Cardinality(Hull(Placed))
        /\ Cardinality(Ghosts(triangles)) = Cardinality(Hull(Placed))

\* C4: after every public operation every solid triangle is strictly
\* counterclockwise and every ghost triangle has its ghost vertex at v3 only.
C4_Orientation ==
    Idle =>
        /\ \A t \in Solid(triangles) :
              orient_2d(t.v1, t.v2, t.v3) = "Counterclockwise"
        /\ \A t \in Ghosts(triangles) :
              t.v3.is_ghost /\ ~t.v1.is_ghost /\ ~t.v2.is_ghost

\* C5: after init, after every handle_conflict call, and after triangulate()
\* and insert_vertex, adjacency maps the three directed edges of every
\* triangle in triangles or among the conflict_map keys to that triangle, and
\* holds no entry whose triangle is in neither.
C5_AdjacencyComplete ==
    (pc \in {"idle", "triangulate"} /\ hist # <<>> /\ OnlyTriangulateInsert) =>
        /\ \A t \in triangles \cup DOMAIN conflict_map : \A e \in Edges(t) :
              e \in DOMAIN adjacency /\ adjacency[e] = t
        /\ \A e \in DOMAIN adjacency :
              adjacency[e] \in triangles \cup DOMAIN conflict_map

C5_Witness ==
    /\ pc = "triangulate"
    /\ conflict_map # EmptyMap
    /\ Solid(triangles) # {}
    /\ Cardinality(DOMAIN adjacency) >= 12

\* C6: after every public operation, the opposite v -> u of every directed
\* edge u -> v that is a key of adjacency is a key too, owned by another
\* triangle.
C6_EdgeOpposition ==
    Idle =>
        \A e \in DOMAIN adjacency :
            /\ <<e[2], e[1]>> \in DOMAIN adjacency
            /\ ~TriangleEq(adjacency[<<e[2], e[1]>>], adjacency[e])

\* C7: after triangulate() and after every insert_vertex, the directed edges
\* a -> b of solid triangles whose opposite b -> a is the edge of no solid
\* triangle are exactly those for which a ghost triangle (b, a, G) is in
\* triangles.
C7_HullClosure ==
    (Idle /\ OnlyTriangulateInsert) =>
        LET solid_edges == UNION {Edges(t) : t \in Solid(triangles)}
        IN  {e \in solid_edges : <<e[2], e[1]>> \notin solid_edges}
            = {<<t.v2, t.v1>> : t \in {g \in Ghosts(triangles) : g.v3.is_ghost}}

\* C8: in every state after init and after each handle_conflict,
\* insert_vertex, delete_vertex or insert_hole, no triangle is both in
\* triangles and a key of conflict_map (triangles compared as Triangle's
\* equality compares them, up to rotation).
C8_Disjoint ==
    (hist # <<>> /\ pc \notin {"panicked", "hung"}) =>
        \A a \in triangles : \A b \in DOMAIN conflict_map : ~TriangleEq(a, b)

\* C9: for an input in general position, whichever conflict_map entry each
\* handle_conflict call of triangulate() picks, the solid triangles it ends
\* with are the same set, and have empty circumcircles.
C9_OrderIndependence ==
    (pc = "triangulate" /\ hist = <<"triangulate">> /\ GeneralPosition(input)) =>
        \A f, g \in Drain(Self) :
            /\ SolidSet(f.triangles) = SolidSet(g.triangles)
            /\ EmptyCircumcircle(f.triangles)

\* C10: triangulate() called with conflict_map empty and the mesh non-empty
\* does not run init, returns, and leaves vertices, triangles, conflict_map
\* and adjacency as they were.
C10_TriangulateIdempotent ==
    [][(/\ pc = "idle"
        /\ conflict_map = EmptyMap
        /\ triangles # {}
        /\ hist' # hist
        /\ last'.op = "triangulate")
       => (/\ last'.arg = FALSE
           /\ pc' = "idle"
           /\ vertices' = vertices
           /\ triangles' = triangles
           /\ conflict_map' = conflict_map
           /\ adjacency' = adjacency)]_vars

C10_Witness ==
    /\ pc = "idle"
    /\ Len(hist) >= 2
    /\ hist[Len(hist)] = "triangulate"
    /\ hist[Len(hist) - 1] = "triangulate"
    /\ last = [op |-> "triangulate", arg |-> FALSE]
    /\ Solid(triangles) # {}
    /\ conflict_map = EmptyMap

\* A public operation was called in this step.
Called(op) == pc = "idle" /\ hist' # hist /\ last'.op = op

Frame ==
    /\ vertices' = vertices
    /\ triangles' = triangles
    /\ conflict_map' = conflict_map
    /\ adjacency' = adjacency

\* C11: whenever insert_vertex(p) returns, conflict_map is empty and p is a
\* vertex of at least one triangle in triangles.
C11_InsertDrains ==
    (pc = "idle" /\ last.op = "insert_vertex") =>
        /\ conflict_map = EmptyMap
        /\ last.arg \in Placed

\* C12: insert_vertex(p) called when no triangle in triangles has p Inside
\* panics with the missing-conflict message and leaves vertices, triangles,
\* conflict_map and adjacency as they were; that is the case on an empty
\* mesh, and for p an already placed vertex of a mesh built by triangulate
\* and insert_vertex.
C12_MissingConflict ==
    [][/\ (Called("insert_vertex") /\ Conflicting(Self, last'.arg) = {})
          => (/\ pc' = "panicked"
              /\ failure' = "Expected to find conflicting triangle to insert vertex"
              /\ Frame)
       /\ (/\ Called("insert_vertex")
           /\ \/ triangles = {}
              \/ OnlyTriangulateInsert /\ last'.arg \in Placed)
          => Conflicting(Self, last'.arg) = {}]_vars

C12_Witness ==
    /\ pc = "panicked"
    /\ last.op = "insert_vertex"
    /\ last.arg \in Placed
    /\ failure = "Expected to find conflicting triangle to insert vertex"
    /\ Solid(triangles) # {}

\* p lies strictly inside the convex hull the ghost triangles of T border.
StrictlyInside(T, p) ==
    /\ Ghosts(T) # {}
    /\ \A g \in Ghosts(T) : orient_2d(g.v1, g.v2, p) = "Clockwise"

\* The call before the last one, and the last one.
Before == seen[Len(seen) - 1]

Now == seen[Len(seen)]

\* delete_vertex(p) has returned, called right after insert_vertex(p), itself
\* called on a triangulated mesh with p strictly inside its hull.
RoundTrip ==
    /\ pc = "idle"
    /\ Len(hist) >= 2
    /\ hist[Len(hist) - 1] = "insert_vertex"
    /\ hist[Len(hist)] = "delete_vertex"
    /\ Before.arg = Now.arg
    /\ Before.drained
    /\ StrictlyInside(Before.triangles, Now.arg)

\* C13: insert_vertex(p) followed by delete_vertex(p), p strictly inside the
\* hull of a triangulated mesh, leaves the set of solid triangles that was
\* there before the insertion.
C13_RoundTrip ==
    RoundTrip => SolidSet(triangles) = SolidSet(Before.triangles)

\* delete_vertex(p) has returned, called with p a vertex of the mesh whose
\* star held no ghost triangle.
DeletedInterior ==
    /\ pc = "idle"
    /\ last.op = "delete_vertex"
    /\ Now.arg \in PlacedIn(Now.triangles)
    /\ Ghosts(Star(Now, Now.arg)) = {}

\* C14: after delete_vertex(p) of a placed vertex whose star contains no ghost
\* triangle, no triangle has p as a vertex, there are exactly two solid
\* triangles fewer than before, and the solid triangles are a Delaunay
\* triangulation of the remaining placed vertices.
C14_DeleteInterior ==
    DeletedInterior =>
        /\ Now.arg \notin Placed
        /\ Cardinality(SolidSet(triangles))
              = Cardinality(SolidSet(Now.triangles)) - 2
        /\ Placed = PlacedIn(Now.triangles) \ {Now.arg}
        /\ EmptyCircumcircle(triangles)

\* C15: after delete_vertex(p) of an interior vertex, adjacency maps every
\* directed edge of every triangle in triangles to that triangle, and no
\* entry of adjacency maps to a triangle that is not in triangles.
C15_MergeKeepsAdjacency ==
    DeletedInterior =>
        /\ \A t \in triangles : \A e \in Edges(t) :
              e \in DOMAIN adjacency /\ adjacency[e] = t
        /\ \A e \in DOMAIN adjacency : adjacency[e] \in triangles

\* C16: delete_vertex(p) for a placed vertex p with a ghost triangle in its
\* star fails with the boundary message, and vertices, triangles,
\* conflict_map and adjacency are unchanged.
C16_BoundaryDeletion ==
    [][(/\ Called("delete_vertex")
        /\ last'.arg \in Placed
        /\ Ghosts(Star(Self, last'.arg)) # {})
       => (/\ pc' = "panicked"
           /\ failure' = "Cannot delete vertex at boundary"
           /\ Frame)]_vars

\* C17: delete_vertex(p) for a vertex p in the pending vertices sequence
\* removes exactly one occurrence of p from vertices and returns, leaving
\* triangles, conflict_map and adjacency unchanged, and a later triangulate()
\* never places p.
C17_PendingDeletion ==
    /\ [][(Called("delete_vertex") /\ last'.arg \in Range(vertices))
          => (/\ pc' = "idle"
              /\ \E i \in 1..Len(vertices) :
                   /\ vertices[i] = last'.arg
                   /\ vertices' = SubSeq(vertices, 1, i - 1)
                                     \o SubSeq(vertices, i + 1, Len(vertices))
              /\ triangles' = triangles
              /\ conflict_map' = conflict_map
              /\ adjacency' = adjacency)]_vars
    /\ []((/\ pc = "idle"
           /\ hist = <<"delete_vertex", "triangulate">>
           /\ seen[1].arg \in input)
          => seen[1].arg \notin Placed)

\* insert_hole carves an edge of its path in this step, and the edge it is.
Carves == pc = "insert_hole" /\ hole.index > Len(hole.path) /\ hole' # hole

Carved == CHOOSE e \in hole.edges : e \notin hole'.edges

\* The side of its directed edges the interior of a three-vertex path is on.
InteriorOnRight(path) == orient_2d(path[1], path[2], path[3]) = "Clockwise"

InteriorOnLeft(path) == orient_2d(path[1], path[2], path[3]) = "Counterclockwise"

\* v is in the closed polygon of the path.
InHole(path, v) ==
    \A e \in InnerEdges(path) :
        orient_2d(e[1], e[2], v) \in {orient_2d(path[1], path[2], path[3]), "Colinear"}

\* What this step removes is solid and lies in the hole polygon.
RemovedInHole ==
    \A tri \in triangles \ triangles' :
        ~is_ghost(tri) /\ \A v \in Corners(tri) : InHole(hole.path, v)

\* The ghost triangle on the carved edge has the hole, not the live domain,
\* in its Inside half-plane.
GhostFacesHole ==
    \A v \in Range(hole.path) \ {Carved[1], Carved[2]} :
        encircles(Triangle(Carved[1], Carved[2], new_ghost), v) = "Inside"

GhostIncluded ==
    pc' # "panicked" => Triangle(Carved[1], Carved[2], new_ghost) \in triangles'

Holed ==
    /\ pc = "idle"
    /\ hist = <<"triangulate", "insert_hole">>
    /\ \A v \in Range(last.arg) : StrictlyInside(Now.triangles, v)

\* Every path vertex is a mesh vertex, every path edge is owned by its
\* ghost triangle, no solid triangle lies in the hole polygon, adjacency is
\* complete and every edge has its opposite; on the outer triangle of
\* test_triangle_hole_inside_triangle there are six vertices and six solid
\* triangles.
HoleCarved(path) ==
    /\ Range(path) \subseteq Placed
    /\ \A e \in InnerEdges(path) :
          /\ e \in DOMAIN adjacency
          /\ adjacency[e] = Triangle(e[1], e[2], new_ghost)
          /\ adjacency[e] \in triangles
    /\ \A tri \in Solid(triangles) : \E v \in Corners(tri) : ~InHole(path, v)
    /\ \A t \in triangles \cup DOMAIN conflict_map : \A e \in Edges(t) :
          e \in DOMAIN adjacency /\ adjacency[e] = t
    /\ \A e \in DOMAIN adjacency :
          /\ adjacency[e] \in triangles \cup DOMAIN conflict_map
          /\ <<e[2], e[1]>> \in DOMAIN adjacency
          /\ ~TriangleEq(adjacency[<<e[2], e[1]>>], adjacency[e])
    /\ input = OuterPoints =>
          Cardinality(Placed) = 6 /\ Cardinality(SolidSet(triangles)) = 6

InLiveDomain(path, p) ==
    /\ ~InHole(path, p)
    /\ \A g \in Ghosts(Now.triangles) : encircles(g, p) = "Outside"

HoleGhosts(path) == {Triangle(e[1], e[2], new_ghost) : e \in InnerEdges(path)}

\* C20: an insert_vertex(p) that follows insert_hole, p in the live domain,
\* does not fail, consumes no ghost triangle of the hole, and makes no solid
\* triangle on the hole's side of a path edge.
C20_HoleIsExterior ==
    [][(/\ Called("insert_vertex")
        /\ hist = <<"triangulate", "insert_hole">>
        /\ HoleCarved(last.arg)
        /\ InLiveDomain(last.arg, last'.arg))
       => (/\ pc' # "panicked"
           /\ HoleGhosts(last.arg) \subseteq triangles'
           /\ \A tri \in Solid(triangles' \ triangles) :
                 Edges(tri) \cap InnerEdges(last.arg) = {})]_vars

\* export() has returned.
Exported == pc = "exported"

\* The number of vertices and of index triples in the Triangulation returned.
VertexCount == Len(out.coordinates) \div 2

TripleCount == Len(out.triangles) \div 3

\* The point index i refers to, and the k-th index triple.
PointAt(i) == Vertex(out.coordinates[2 * i + 1], out.coordinates[2 * i + 2])

TripleAt(k) ==
    <<out.triangles[3 * k - 2], out.triangles[3 * k - 1], out.triangles[3 * k]>>

\* Every vertex of a solid triangle has an index.
Indexed ==
    \A v \in PlacedIn(Solid(triangles)) :
        \E i \in 0..(VertexCount - 1) : PointAt(i) = v

IndexIn(v) == CHOOSE i \in 0..(VertexCount - 1) : PointAt(i) = v

\* triple holds the indices of (v1, v2, v3) of tri in that cyclic order.
IsRotation(triple, tri) ==
    LET a == IndexIn(tri.v1)
        b == IndexIn(tri.v2)
        c == IndexIn(tri.v3)
    IN  triple \in {<<a, b, c>>, <<b, c, a>>, <<c, a, b>>}

MinFirst(triple) == triple[1] <= triple[2] /\ triple[1] <= triple[3]

\* C21: export() returns one index triple for each solid triangle in
\* triangles and no other; each triple is a cyclic rotation of the indices of
\* its triangle's (v1, v2, v3) with the least index first; export() leaves
\* vertices, triangles, conflict_map and adjacency as they were.
C21_ExportTriples ==
    /\ [][Called("export") => Frame]_vars
    /\ [](Exported =>
            /\ Len(out.triangles) = 3 * Cardinality(Solid(triangles))
            /\ Indexed
            /\ \A k \in 1..TripleCount :
                  /\ MinFirst(TripleAt(k))
                  /\ \E tri \in Solid(triangles) : IsRotation(TripleAt(k), tri)
            /\ \A tri \in Solid(triangles) :
                  Cardinality({k \in 1..TripleCount : IsRotation(TripleAt(k), tri)})
                    = Cardinality({u \in Solid(triangles) : TriangleEq(u, tri)}))

C21_Witness ==
    /\ Exported
    /\ Cardinality(Solid(triangles)) >= 3
    /\ Ghosts(triangles) # {}
    /\ \E tri \in Solid(triangles) :
          IndexIn(tri.v1) > IndexIn(tri.v2) \/ IndexIn(tri.v1) > IndexIn(tri.v3)

LexLess(a, b) == a.x < b.x \/ (a.x = b.x /\ a.y < b.y)

\* C22: the coordinates export() returns list the vertices of the solid
\* triangles, each once and no other, in strictly increasing lexicographic
\* order; coordinates has two elements for each vertex and triangles three
\* for each solid triangle; every index is at least 0 and less than the
\* number of vertices, and refers to a vertex of the triangle it came from.
C22_ExportCoordinates ==
    Exported =>
        /\ Len(out.coordinates) = 2 * Cardinality(PlacedIn(Solid(triangles)))
        /\ {PointAt(i) : i \in 0..(VertexCount - 1)} = PlacedIn(Solid(triangles))
        /\ \A i, j \in 0..(VertexCount - 1) :
              i < j => LexLess(PointAt(i), PointAt(j))
        /\ Len(out.triangles) = 3 * Cardinality(Solid(triangles))
        /\ \A k \in 1..Len(out.triangles) :
              0 <= out.triangles[k] /\ out.triangles[k] < VertexCount
        /\ \A k \in 1..TripleCount :
              \E tri \in Solid(triangles) :
                  {PointAt(TripleAt(k)[1]), PointAt(TripleAt(k)[2]),
                   PointAt(TripleAt(k)[3])} = Corners(tri)

C22_Witness ==
    /\ Exported
    /\ VertexCount >= 4
    /\ TripleCount >= 3
    /\ Ghosts(triangles) # {}

\* raw has an even number of elements.
Paired == Len(raw) % 2 = 0

\* list holds, in order, the non-ghost vertices whose coordinates are the
\* pairs of raw: the i-th, counted from 0, is (raw[2i], raw[2i + 1]), the
\* elements of raw counted from 0 too.
ListsPairs(list) ==
    /\ Len(list) * 2 = Len(raw)
    /\ \A i \in 0..(Len(list) - 1) :
          /\ list[i + 1].x = raw[2 * i + 1]
          /\ list[i + 1].y = raw[2 * i + 2]
          /\ ~list[i + 1].is_ghost

\* C23: Vertex::from_coordinates fails on an array of odd length and
\* otherwise returns the len/2 non-ghost vertices of its pairs, in order;
\* Triangulator::from_coordinates starts with those vertices pending and with
\* triangles, conflict_map and adjacency empty.
C23_FromCoordinates ==
    /\ last.op = "Vertex::from_coordinates" =>
          IF Paired
          THEN pc = "listed" /\ ListsPairs(out)
          ELSE pc = "panicked" /\ failure # ""
    /\ (last.op = "Triangulator::from_coordinates" /\ Paired) =>
          /\ pc = "idle"
          /\ ListsPairs(vertices)
          /\ triangles = {}
          /\ conflict_map = EmptyMap
          /\ adjacency = EmptyMap

C23_Witness ==
    /\ last.op = "Vertex::from_coordinates"
    /\ pc = "panicked"
    /\ Len(raw) = 5

\* The lexicographic order on (x, y).
Lexicographic(v1, v2) ==
    IF v1.x < v2.x THEN "Less"
    ELSE IF v1.x > v2.x THEN "Greater"
    ELSE IF v1.y < v2.y THEN "Less"
    ELSE IF v1.y > v2.y THEN "Greater"
    ELSE "Equal"

\* C24: Vertex::sort leaves a list of non-ghost vertices in lexicographic
\* order of (x, y), and its comparator returns for every two vertices of the
\* list what comparing their x and, on equal x, their y returns.
C24_SortLexicographic ==
    last.op = "Vertex::sort" =>
        /\ \A v1, v2 \in Range(last.arg) :
              compare(v1, v2) = Lexicographic(v1, v2)
        /\ \A i, j \in 1..Len(out) :
              i < j => Lexicographic(out[i], out[j]) # "Greater"

\* Every three vertices of S are colinear.
AllColinear(S) == \A a, b, c \in S : orient_2d(a, b, c) = "Colinear"

\* C25: the first triangulate() of a Triangulator whose vertices are all
\* colinear ends by failing; it is not left running in init's seed search.
C25_ColinearRejected ==
    (hist = <<"triangulate">> /\ AllColinear(input)) =>
        (pc = "panicked" /\ failure # "")

\* The vertices that are values of a conflict map.
QueuedIn(cm) == {cm[k] : k \in DOMAIN cm}

Queued == QueuedIn(conflict_map)

\* The four triangles init makes of v1, v2, v3.
Seeds(v1, v2, v3) ==
    {Triangle(v1, v2, v3), Triangle(v2, v1, new_ghost),
     Triangle(v3, v2, new_ghost), Triangle(v1, v3, new_ghost)}

\* init has returned having taken a counterclockwise v1, v2, v3: its four
\* triangles, and no other, are in triangles or keys of conflict_map, and
\* every other vertex is still pending or the value of a conflict.
InitSeeded ==
    /\ pc' \in {"idle", "triangulate"}
    /\ \E v1, v2, v3 \in Range(vertices) :
          /\ orient_2d(v1, v2, v3) = "Counterclockwise"
          /\ triangles' \cup DOMAIN conflict_map' = Seeds(v1, v2, v3)
          /\ triangles' \cap DOMAIN conflict_map' = {}
          /\ Cardinality(triangles') + Cardinality(DOMAIN conflict_map') = 4
          /\ Range(vertices) \subseteq
                Range(vertices') \cup QueuedIn(conflict_map') \cup {v1, v2, v3}
          /\ Range(vertices') \cup QueuedIn(conflict_map') \subseteq Range(vertices)
          /\ Len(vertices') + Cardinality(DOMAIN conflict_map')
                = Len(vertices) - 3

\* C26: when the pending vertices hold three non-colinear points, init
\* returns having taken v1, v2, v3 with orient_2d(v1, v2, v3) counterclockwise
\* and included exactly the solid triangle (v1, v2, v3) and the ghosts
\* (v2, v1, G), (v3, v2, G), (v1, v3, G); each of the four is in triangles or
\* a key of conflict_map, and no vertex other than v1, v2, v3 is dropped.
C26_InitSeeds ==
    [][(/\ Called("triangulate")
        /\ should_init(Self)
        /\ ~AllColinear(Range(vertices)))
       => InitSeeded]_vars

\* The first triangulate() is between two handle_conflict calls, or has
\* returned.
FirstTriangulate == hist = <<"triangulate">> /\ pc \in {"idle", "triangulate"}

\* C27: after init and after every handle_conflict call of triangulate(), no
\* vertex in vertices is Inside a triangle that is in triangles.
C27_PendingOutside ==
    FirstTriangulate =>
        \A i \in 1..Len(vertices) : \A t \in triangles :
            encircles(t, vertices[i]) # "Inside"

\* The number of vertices not placed yet.
Unplaced == Len(vertices) + Cardinality(DOMAIN conflict_map)

\* C28: on an input not all colinear triangulate() never runs for ever in
\* init and never fails; each handle_conflict call of its loop returns with
\* one unplaced vertex less; the loop goes on while conflict_map is not empty
\* and triangulate() returns when it is.  The number of unplaced vertices is
\* the variant that makes the loop end.
C28_Terminates ==
    /\ [][(pc = "triangulate" /\ hist = <<"triangulate">>)
          => (/\ pc' \in {"idle", "triangulate"}
              /\ Len(vertices') + Cardinality(DOMAIN conflict_map')
                    = Unplaced - 1)]_vars
    /\ []((hist = <<"triangulate">> /\ ~AllColinear(input)) =>
            /\ pc \in {"idle", "triangulate"}
            /\ pc = "idle" <=> conflict_map = EmptyMap)

\* The vertices of the triangles init and handle_conflict have made and not
\* removed.
MeshVertices ==
    UNION {Corners(t) \ {new_ghost} : t \in triangles \cup DOMAIN conflict_map}

\* C29: after init and after every handle_conflict call of triangulate(),
\* every input vertex is in exactly one of vertices, the values of
\* conflict_map and the vertices of the mesh triangles; vertices holds none
\* twice and no vertex is the value of two conflict_map entries.
C29_Conservation ==
    FirstTriangulate =>
        /\ Range(vertices) \cup Queued \cup MeshVertices = input
        /\ Range(vertices) \cap Queued = {}
        /\ Range(vertices) \cap MeshVertices = {}
        /\ Queued \cap MeshVertices = {}
        /\ Cardinality(Range(vertices)) = Len(vertices)
        /\ Cardinality(Queued) = Cardinality(DOMAIN conflict_map)

C29_Witness ==
    /\ FirstTriangulate
    /\ vertices # <<>>
    /\ Cardinality(Solid(triangles)) >= 2

\* C30: no handle_conflict call of triangulate() or insert_vertex, after
\* delete_vertex or insert_hole too, fails at its adjacency lookup or in
\* remove_triangle.
C30_NoMissingNeighbour ==
    last.op \in {"triangulate", "insert_vertex"} =>
        failure \notin {"adjacency.get(..).unwrap()",
                        "Could not remove specied triangle"}

====
